---- MODULE Spec2Model ----
(***************************************************************************)
(* A model of the Match grammar-matching engine (match/matchers.py) and of *)
(* the authoring layer that builds matchers (match/dsl.py).                *)
(*                                                                         *)
(* A Python str is a sequence of code points.  A token of a Match is       *)
(* either a str or a Match; Python tells them apart by their type, the     *)
(* model by the field kind.  An exception leaving match() is the value     *)
(* Raise(e): no match() of matchers.py has a try/except, so an exception   *)
(* raised in a callee leaves every caller in turn.  The label (name) of a  *)
(* matcher is copied unread into the Match it returns and is left out.     *)
(***************************************************************************)
EXTENDS Integers, Sequences, FiniteSets, TLC

VARIABLES registry, last, handle, source, result, stack, ret

vars == <<registry, last, handle, source, result, stack, ret>>

\* Longest input string handed to a matcher.
MaxLen == 3
\* Largest number of nodes of a matcher built by the constructors.
MaxNodes == 3
\* Largest number of nodes of a matcher whose match is run step by step.
RunNodes == 4
\* Longest input string of a match run step by step.
RunLen == 2
\* Longest input string handed to a rule of the example grammar.
MaxText == 3

---------------------------------------------------------------------------
\* Strings

\* 'A' and 'a'
Alphabet == {65, 97}

Inputs == UNION {[1..n -> Alphabet] : n \in 0..MaxLen}

\* str.lower() on one code point (ASCII letters)
Lower(c) == IF c >= 65 /\ c <= 90 THEN c + 32 ELSE c

LowerStr(s) == [i \in 1..Len(s) |-> Lower(s[i])]

\* s.startswith(p)
StartsWith(s, p) == Len(p) <= Len(s) /\ SubSeq(s, 1, Len(p)) = p

\* s[n:]
From(s, n) == SubSeq(s, n + 1, Len(s))

---------------------------------------------------------------------------
\* Match: the container a matcher returns

None == [kind |-> "None"]

Match(successful, tokens, remainder) ==
    [kind |-> "Match", successful |-> successful, tokens |-> tokens,
     remainder |-> remainder]

\* a token that is a str
Str(text) == [kind |-> "str", text |-> text]

\* an exception leaving match()
Raise(error) == [kind |-> "raise", error |-> error]

IsMatch(r) == r.kind = "Match"
IsRaise(r) == r.kind = "raise"
Succeeded(r) == IsMatch(r) /\ r.successful
Failed(r) == IsMatch(r) /\ ~r.successful

RECURSIVE get_match(_)
get_match(self) ==
    IF self.tokens = <<>> THEN <<>>
    ELSE LET t == Head(self.tokens)
             rest == get_match([self EXCEPT !.tokens = Tail(self.tokens)])
         IN (IF t.kind = "str" THEN t.text ELSE get_match(t)) \o rest

---------------------------------------------------------------------------
\* Matchers (the __init__ of each class)

LiteralMatcher(literal, case_sensitive) ==
    [kind |-> "Literal", literal |-> literal, case_sensitive |-> case_sensitive]

RangeMatcher(lower, upper, lower_inclusive, upper_inclusive) ==
    [kind |-> "Range",
     lbound |-> lower + (IF lower_inclusive THEN 0 ELSE 1),
     ubound |-> upper - (IF upper_inclusive THEN 0 ELSE 1)]

OptionalMatcher(matcher) == [kind |-> "Optional", matcher |-> matcher]

AnyMatcher(matchers) == [kind |-> "Any", matchers |-> matchers]

SequenceMatcher(matchers) == [kind |-> "Sequence", matchers |-> matchers]

RepeatedMatcher(matcher) == [kind |-> "Repeated", matcher |-> matcher]

RefMatcher(ref_name) == [kind |-> "Ref", ref_name |-> ref_name]

NotMatcher(matcher) == [kind |-> "Not", matcher |-> matcher]

RECURSIVE Nodes(_)
RECURSIVE NodesAll(_)
Nodes(m) ==
    CASE m.kind \in {"Literal", "Range", "Ref"} -> 1
      [] m.kind \in {"Optional", "Repeated", "Not"} -> 1 + Nodes(m.matcher)
      [] m.kind \in {"Any", "Sequence"} -> 1 + NodesAll(m.matchers)
NodesAll(ms) == IF ms = <<>> THEN 0 ELSE Nodes(Head(ms)) + NodesAll(Tail(ms))

---------------------------------------------------------------------------
\* match(): one activation of a match method is a frame, holding self, the
\* argument source and the method's locals.  Each X_match(f, r) below is
\* the method's code from where the activation f stands (at entry r is
\* None; after a call of a sub-matcher r is what that call returned) up to
\* its next call of a sub-matcher or its return.

Frame(self, src) ==
    [self |-> self, source |-> src, i |-> 0, src |-> src, matched |-> <<>>,
     loop_watch |-> FALSE]

\* the activation calls matcher.match(arg) and goes on as frame f
Call(f, matcher, arg) == [op |-> "call", frame |-> f, matcher |-> matcher, arg |-> arg]

\* the activation returns (or raises) value
Return(value) == [op |-> "return", value |-> value]

LiteralMatcher_match(f, r) ==
    LET self == f.self
        lsource == IF self.case_sensitive THEN f.source ELSE LowerStr(f.source)
        lliteral == IF self.case_sensitive THEN self.literal
                    ELSE LowerStr(self.literal)
    IN IF StartsWith(lsource, lliteral)
       THEN Return(Match(TRUE, <<Str(self.literal)>>,
                         From(f.source, Len(self.literal))))
       ELSE Return(Match(FALSE, <<>>, f.source))

RangeMatcher_match(f, r) ==
    IF f.source = <<>> THEN Return(Match(FALSE, <<>>, f.source))
    ELSE LET head == f.source[1]
         IN IF f.self.lbound <= head /\ head <= f.self.ubound
            THEN Return(Match(TRUE, <<Str(<<head>>)>>, From(f.source, 1)))
            ELSE Return(Match(FALSE, <<>>, f.source))

\* a variant that hands the sub-matcher's failure on
OptionalMatcher_match_failing(f, r) ==
    IF r = None THEN Call(f, f.self.matcher, f.source)
    ELSE IF r.successful THEN Return(Match(TRUE, <<r>>, r.remainder))
    ELSE Return(Match(FALSE, <<>>, f.source))

OptionalMatcher_match(f, r) ==
    IF r = None THEN Call(f, f.self.matcher, f.source)
    ELSE IF r.successful THEN Return(Match(TRUE, <<r>>, r.remainder))
    ELSE Return(Match(TRUE, <<>>, f.source))

\* a variant that returns from inside the loop when a sub-matcher fails
AnyMatcher_match_first_only(f, r) ==
    IF r # None /\ r.successful THEN Return(Match(TRUE, <<r>>, r.remainder))
    ELSE IF r = None /\ f.i < Len(f.self.matchers)
    THEN Call([f EXCEPT !.i = f.i + 1], f.self.matchers[f.i + 1], f.source)
    ELSE Return(Match(FALSE, <<>>, f.source))

\* a variant that tries every sub-matcher and keeps the last success
AnyMatcher_match_last_wins(f, r) ==
    LET g == IF r # None /\ r.successful THEN [f EXCEPT !.matched = <<r>>] ELSE f
    IN IF g.i < Len(g.self.matchers)
       THEN Call([g EXCEPT !.i = g.i + 1], g.self.matchers[g.i + 1], g.source)
       ELSE IF g.matched # <<>>
       THEN Return(Match(TRUE, g.matched, g.matched[1].remainder))
       ELSE Return(Match(FALSE, <<>>, g.source))

\* f.i counts the sub-matchers already tried
AnyMatcher_match(f, r) ==
    IF r # None /\ r.successful THEN Return(Match(TRUE, <<r>>, r.remainder))
    ELSE IF f.i < Len(f.self.matchers)
    THEN Call([f EXCEPT !.i = f.i + 1], f.self.matchers[f.i + 1], f.source)
    ELSE Return(Match(FALSE, <<>>, f.source))

\* a variant that reports the input left when a sub-matcher failed
SequenceMatcher_match_partial(f, r) ==
    IF r # None /\ ~r.successful THEN Return(Match(FALSE, <<>>, f.src))
    ELSE LET g == IF r = None THEN f
                  ELSE [f EXCEPT !.src = r.remainder,
                                 !.matched = Append(f.matched, r)]
         IN IF g.i < Len(g.self.matchers)
            THEN Call([g EXCEPT !.i = g.i + 1], g.self.matchers[g.i + 1], g.src)
            ELSE Return(Match(TRUE, g.matched, g.src))

\* f.i counts the sub-matchers already matched
SequenceMatcher_match(f, r) ==
    IF r # None /\ ~r.successful THEN Return(Match(FALSE, <<>>, f.source))
    ELSE LET g == IF r = None THEN f
                  ELSE [f EXCEPT !.src = r.remainder,
                                 !.matched = Append(f.matched, r)]
         IN IF g.i < Len(g.self.matchers)
            THEN Call([g EXCEPT !.i = g.i + 1], g.self.matchers[g.i + 1], g.src)
            ELSE Return(Match(TRUE, g.matched, g.src))

\* the while test of RepeatedMatcher.match, and what follows it
RepeatedMatcher_while(g) ==
    IF Len(g.src) > 0 THEN Call(g, g.self.matcher, g.src)
    ELSE Return(Match(TRUE, g.matched, g.src))

\* a variant that raises on the first iteration that consumes nothing
RepeatedMatcher_match_strict(f, r) ==
    IF r = None THEN RepeatedMatcher_while(f)
    ELSE IF r.successful
    THEN IF r.remainder = f.src
         THEN Return(Raise("Exception"))
         ELSE RepeatedMatcher_while(
                  [f EXCEPT !.loop_watch = FALSE,
                            !.matched = Append(f.matched, r),
                            !.src = r.remainder])
    ELSE Return(Match(TRUE, f.matched, f.src))

\* a variant that leaves the loop after the first iteration that consumes
RepeatedMatcher_match_once(f, r) ==
    IF r = None THEN RepeatedMatcher_while(f)
    ELSE IF r.successful
    THEN IF r.remainder = f.src
         THEN IF ~f.loop_watch
              THEN RepeatedMatcher_while(
                       [f EXCEPT !.loop_watch = TRUE,
                                 !.matched = Append(f.matched, r),
                                 !.src = r.remainder])
              ELSE Return(Raise("Exception"))
         ELSE Return(Match(TRUE, Append(f.matched, r), r.remainder))
    ELSE Return(Match(TRUE, f.matched, f.src))

\* a variant without the loop_watch guard
RepeatedMatcher_match_unguarded(f, r) ==
    IF r = None THEN RepeatedMatcher_while(f)
    ELSE IF r.successful
    THEN RepeatedMatcher_while(
             [f EXCEPT !.matched = Append(f.matched, r), !.src = r.remainder])
    ELSE Return(Match(TRUE, f.matched, f.src))

RepeatedMatcher_match(f, r) ==
    IF r = None THEN RepeatedMatcher_while(f)
    ELSE IF r.successful
    THEN IF r.remainder = f.src
         THEN IF ~f.loop_watch
              THEN RepeatedMatcher_while(
                       [f EXCEPT !.loop_watch = TRUE,
                                 !.matched = Append(f.matched, r),
                                 !.src = r.remainder])
              ELSE Return(Raise("Exception"))
         ELSE RepeatedMatcher_while(
                  [f EXCEPT !.loop_watch = FALSE,
                            !.matched = Append(f.matched, r),
                            !.src = r.remainder])
    ELSE Return(Match(TRUE, f.matched, f.src))

\* registry[ref_name] of an unbound name raises KeyError
RefMatcher_match(f, r, reg) ==
    IF r = None
    THEN IF f.self.ref_name \in DOMAIN reg
         THEN Call(f, reg[f.self.ref_name], f.source)
         ELSE Return(Raise("KeyError"))
    ELSE Return(r)

\* a failed Match of a NotMatcher has tokens '', a str without characters
\* where the other classes have [], a list without elements: no token
\* either way
NotMatcher_match(f, r) ==
    IF r = None
    THEN IF f.source = <<>> THEN Return(Match(FALSE, <<>>, <<>>))
         ELSE Call(f, f.self.matcher, f.source)
    ELSE IF ~r.successful
    THEN Return(Match(TRUE, <<Str(<<f.source[1]>>)>>, From(f.source, 1)))
    ELSE Return(Match(FALSE, <<>>, f.source))

\* the match method of self's class
Dispatch(f, r, reg) ==
    CASE f.self.kind = "Literal" -> LiteralMatcher_match(f, r)
      [] f.self.kind = "Range" -> RangeMatcher_match(f, r)
      [] f.self.kind = "Optional" -> OptionalMatcher_match(f, r)
      [] f.self.kind = "Any" -> AnyMatcher_match(f, r)
      [] f.self.kind = "Sequence" -> SequenceMatcher_match(f, r)
      [] f.self.kind = "Repeated" -> RepeatedMatcher_match(f, r)
      [] f.self.kind = "Ref" -> RefMatcher_match(f, r, reg)
      [] f.self.kind = "Not" -> NotMatcher_match(f, r)

\* a variant in which a caller takes an exception of the sub-matcher for
\* an unsuccessful Match (try: ... except: ...)
Resume_catching(f, r, reg) ==
    Dispatch(f, IF IsRaise(r) THEN Match(FALSE, <<>>, f.src) ELSE r, reg)

\* One stretch of the activation f: an exception raised by the call it
\* made leaves f too; otherwise the code of self's class runs on.
Resume(f, r, reg) ==
    IF IsRaise(r) THEN Return(r) ELSE Dispatch(f, r, reg)

\* matcher.match(src) with the registry reg, run to its return or raise
RECURSIVE Run(_, _, _)
Run(f, r, reg) ==
    LET o == Resume(f, r, reg)
    IN IF o.op = "return" THEN o.value
       ELSE Run(o.frame, Run(Frame(o.matcher, o.arg), None, reg), reg)

match(matcher, src, reg) == Run(Frame(matcher, src), None, reg)

---------------------------------------------------------------------------
\* Specification Spec: a client of matchers.py builds matchers with the
\* constructors, binds names in the registry dict it hands to RefMatcher,
\* and calls match.  last is the matcher built so far.

Names == {"x"}

\* the (literal, case_sensitive) a LiteralMatcher is built with:
\* "", "a", "aa", and "A" matched without regard to case
LiteralArgs == {<<<<>>, TRUE>>, <<<<97>>, TRUE>>, <<<<97, 97>>, TRUE>>,
                <<<<65>>, FALSE>>}

\* the (lower, upper, lower_inclusive, upper_inclusive) a RangeMatcher is
\* built with: 'A'..'a', and the same without its lower bound
RangeArgs == {<<65, 97, TRUE, TRUE>>, <<65, 97, FALSE, TRUE>>}

Leaves ==
    {LiteralMatcher(a[1], a[2]) : a \in LiteralArgs}
    \cup {RangeMatcher(a[1], a[2], a[3], a[4]) : a \in RangeArgs}
    \cup {RefMatcher(n) : n \in Names}

\* the matchers a name is bound to
Bindable == {LiteralMatcher(<<97>>, TRUE), OptionalMatcher(LiteralMatcher(<<65>>, FALSE))}

\* the sub-matcher lists AnyMatcher and SequenceMatcher are built with
Operands == {<<>>} \cup (IF last = None THEN {}
                         ELSE {<<last, m>> : m \in Leaves}
                              \cup {<<m, last>> : m \in Leaves})

Init ==
    /\ registry = [n \in {} |-> None]
    /\ last = None
    /\ handle = None
    /\ source = None
    /\ result = None
    /\ stack = <<>>
    /\ ret = None

\* a new matcher becomes last
Built(matcher) ==
    /\ result = None
    /\ Nodes(matcher) <= MaxNodes
    /\ last' = matcher
    /\ UNCHANGED <<registry, handle, source, result, stack, ret>>

NewLiteral ==
    \E a \in LiteralArgs :
        /\ Built(LiteralMatcher(a[1], a[2]))

NewRange ==
    \E a \in RangeArgs :
        /\ Built(RangeMatcher(a[1], a[2], a[3], a[4]))

NewOptional == last # None /\ Built(OptionalMatcher(last))

NewAny == \E ms \in Operands : Built(AnyMatcher(ms))

NewSequence == \E ms \in Operands : Built(SequenceMatcher(ms))

\* RepeatedMatcher.__init__ raises ValueError on a RepeatedMatcher
NewRepeated == last # None /\ last.kind # "Repeated" /\ Built(RepeatedMatcher(last))

NewRef ==
    \E n \in Names :
        /\ Built(RefMatcher(n))

NewNot == last # None /\ Built(NotMatcher(last))

\* registry[name] = matcher
Bind ==
    \E n \in Names, m \in Bindable :
        /\ result = None
        /\ registry' = [k \in DOMAIN registry \cup {n} |->
                            IF k = n THEN m ELSE registry[k]]
        /\ UNCHANGED <<last, handle, source, result, stack, ret>>

\* result = last.match(source)
DoMatch ==
    /\ last # None /\ result = None
    /\ \E s \in Inputs :
        /\ source' = s
        /\ result' = match(last, s, registry)
    /\ UNCHANGED <<registry, last, handle, stack, ret>>

\* the statement that called match is over: its result, a temporary, is
\* gone
Discard ==
    /\ result # None
    /\ source' = None
    /\ result' = None
    /\ UNCHANGED <<registry, last, handle, stack, ret>>

Next ==
    \/ NewLiteral \/ NewRange \/ NewOptional \/ NewAny \/ NewSequence
    \/ NewRepeated \/ NewRef \/ NewNot \/ Bind \/ DoMatch \/ Discard

Spec == Init /\ [][Next]_vars

---------------------------------------------------------------------------
\* Properties of Spec

\* sub-matcher i of last, matched on its own against source
SubResult(i) == match(last.matchers[i], source, registry)

\* the text a successful sub-result consumed is not empty
Consumed(r, src) == Succeeded(r) /\ r.remainder # src

\* C1: whenever match(s) returns a successful result, the concatenation
\* of its tokens (get_match) followed by its remainder is s.
C1_RoundTrip ==
    Succeeded(result) => get_match(result) \o result.remainder = source

\* C1, the case that breaks it: a case-insensitive literal has matched
\* text that is not written as the literal is
C1_Witness ==
    /\ last # None /\ last.kind = "Literal" /\ ~last.case_sensitive
    /\ Succeeded(result)
    /\ SubSeq(source, 1, Len(last.literal)) # last.literal

\* C2: whenever match(s) returns an unsuccessful result, the result has
\* no tokens and its remainder is s; so for a Sequence whose later
\* sub-matcher fails after earlier ones consumed input.
C2_FailureConsumesNothing ==
    Failed(result) => result.tokens = <<>> /\ result.remainder = source

\* C2: a Sequence has failed at its second sub-matcher after the first
\* consumed input
C2_Witness ==
    /\ Failed(result)
    /\ last.kind = "Sequence" /\ Len(last.matchers) = 2
    /\ Consumed(SubResult(1), source)
    /\ Failed(match(last.matchers[2], SubResult(1).remainder, registry))

\* C4: an Alternation that returns succeeds with, as its single child and
\* its remainder, the result and the remainder of the first sub-matcher
\* that succeeds on s, whatever later sub-matchers would do; it fails iff
\* every sub-matcher fails on s.
C4_FirstSuccessWins ==
    (last # None /\ last.kind = "Any" /\ IsMatch(result)) =>
        LET n == Len(last.matchers)
        IN /\ Failed(result) <=> \A i \in 1..n : Failed(SubResult(i))
           /\ Failed(result) => result = Match(FALSE, <<>>, source)
           /\ Succeeded(result) =>
                \E i \in 1..n :
                    /\ Succeeded(SubResult(i))
                    /\ \A j \in 1..(i - 1) : Failed(SubResult(j))
                    /\ result = Match(TRUE, <<SubResult(i)>>, SubResult(i).remainder)

\* C4: both sub-matchers succeed, the second would consume more, and the
\* Alternation has returned
C4_Witness ==
    /\ last # None /\ last.kind = "Any" /\ Len(last.matchers) = 2
    /\ Succeeded(result)
    /\ Succeeded(SubResult(1)) /\ Succeeded(SubResult(2))
    /\ Len(SubResult(2).remainder) < Len(SubResult(1).remainder)

\* C4: an Alternation without sub-matchers has been matched
C4_WitnessEmpty ==
    last # None /\ last.kind = "Any" /\ last.matchers = <<>> /\ result # None

\* C7: Optional(M).match(s) is successful: with M's result as its single
\* child and M's remainder when M succeeds on s, and with no children
\* and the remainder s when M fails on s.
C7_OptionalNeverFails ==
    (last # None /\ last.kind = "Optional" /\ result # None) =>
        LET r == match(last.matcher, source, registry)
        IN /\ IsMatch(r) => Succeeded(result)
           /\ Succeeded(r) => result = Match(TRUE, <<r>>, r.remainder)
           /\ Failed(r) => result = Match(TRUE, <<>>, source)

\* C7: an Optional has been matched where its sub-matcher fails
C7_Witness ==
    /\ last # None /\ last.kind = "Optional" /\ result # None
    /\ Failed(match(last.matcher, source, registry))
    /\ source # <<>>

---------------------------------------------------------------------------
\* Specification RunSpec: one call last.match(source), activation by
\* activation.  stack holds the activations of match methods, the caller
\* below its callee; ret is what the callee that just ended returned or
\* raised; result is what the outermost call returned or raised.

RunLeaves ==
    {LiteralMatcher(<<97>>, TRUE), LiteralMatcher(<<>>, TRUE), RefMatcher("x")}

\* the matchers of exactly n nodes over RunLeaves
RECURSIVE Sized(_)
Sized(n) ==
    IF n = 1 THEN RunLeaves
    ELSE {OptionalMatcher(m) : m \in Sized(n - 1)}
         \cup {RepeatedMatcher(m) : m \in {k \in Sized(n - 1) : k.kind # "Repeated"}}
         \cup {NotMatcher(m) : m \in Sized(n - 1)}
         \cup UNION {{AnyMatcher(<<a, b>>) : a \in Sized(k), b \in Sized(n - 1 - k)}
                     : k \in 1..(n - 2)}
         \cup UNION {{SequenceMatcher(<<a, b>>) : a \in Sized(k), b \in Sized(n - 1 - k)}
                     : k \in 1..(n - 2)}

RunMatchers == UNION {Sized(n) : n \in 1..RunNodes}

RunRegistries ==
    {[n \in {} |-> None], [n \in Names |-> LiteralMatcher(<<97>>, TRUE)]}

RunInputs == UNION {[1..n -> Alphabet] : n \in 0..RunLen}

RunInit ==
    /\ registry \in RunRegistries
    /\ last \in RunMatchers
    /\ source \in RunInputs
    /\ handle = None
    /\ result = None
    /\ stack = <<>>
    /\ ret = None

Top == stack[Len(stack)]

\* what the activation on top of the stack does next
Outcome == Resume(Top, ret, registry)

\* last.match(source) is called
Enter ==
    /\ stack = <<>> /\ result = None
    /\ stack' = <<Frame(last, source)>>
    /\ UNCHANGED <<registry, last, handle, source, result, ret>>

\* the top activation calls the match of a sub-matcher
StepCall ==
    /\ stack # <<>>
    /\ Outcome.op = "call"
    /\ stack' = Append([stack EXCEPT ![Len(stack)] = Outcome.frame],
                       Frame(Outcome.matcher, Outcome.arg))
    /\ ret' = None
    /\ UNCHANGED <<registry, last, handle, source, result>>

\* the top activation returns or raises to its caller
StepReturn ==
    /\ Len(stack) > 1
    /\ Outcome.op = "return"
    /\ stack' = SubSeq(stack, 1, Len(stack) - 1)
    /\ ret' = Outcome.value
    /\ UNCHANGED <<registry, last, handle, source, result>>

\* the outermost activation returns or raises
Finish ==
    /\ Len(stack) = 1
    /\ Outcome.op = "return"
    /\ stack' = <<>>
    /\ ret' = None
    /\ result' = Outcome.value
    /\ UNCHANGED <<registry, last, handle, source>>

RunNext == Enter \/ StepCall \/ StepReturn \/ Finish

\* the interpreter runs a call on: match does not wait for anything
RunSpec == RunInit /\ [][RunNext]_vars /\ WF_vars(RunNext)

\* the call, once over, gave what match gives in one piece
RunAgrees == result # None => result = match(last, source, registry)

---------------------------------------------------------------------------
\* Properties of RunSpec

RECURSIVE RefFree(_)
RefFree(m) ==
    CASE m.kind \in {"Literal", "Range"} -> TRUE
      [] m.kind = "Ref" -> FALSE
      [] m.kind \in {"Optional", "Repeated", "Not"} -> RefFree(m.matcher)
      [] m.kind \in {"Any", "Sequence"} ->
            \A i \in 1..Len(m.matchers) : RefFree(m.matchers[i])

\* in this step the top activation returns (or raises) v
Returns(v) ==
    /\ Len(stack') = Len(stack) - 1
    /\ IF stack' = <<>> THEN result' = v ELSE ret' = v

\* in this step the top activation goes on as g and calls its sub-matcher
LoopsOn(g) ==
    /\ Len(stack') = Len(stack) + 1
    /\ stack'[Len(stack)] = g
    /\ stack'[Len(stack')] = Frame(g.self.matcher, g.src)

\* a Reference to a name the registry does not hold is being matched
UnboundInvoked ==
    /\ stack # <<>> /\ ret = None
    /\ Top.self.kind = "Ref" /\ Top.self.ref_name \notin DOMAIN registry

\* C6: when a Reference to an unbound name is invoked during a match
\* call, the error leaves every enclosing activation in turn, whatever its
\* class (no Alternation goes on to its next alternative, no Optional or
\* Negation turns it into a success), and the call ends with the error
\* instead of a Match.
C6_UnboundReferenceAborts ==
    /\ [][(stack # <<>> /\ IsRaise(ret)) => Returns(ret)]_vars
    /\ [][UnboundInvoked => Returns(Raise("KeyError"))]_vars
    /\ UnboundInvoked ~> (stack = <<>> /\ result = Raise("KeyError"))

\* C6: the error of an unbound Reference stands two activations deep,
\* under an Alternation that has a second alternative left
C6_Witness ==
    /\ Len(stack) = 2 /\ ret = Raise("KeyError")
    /\ Top.self.kind = "Any" /\ Top.i < Len(Top.self.matchers)
    /\ stack[1].self.kind \in {"Optional", "Not"}

\* an iteration of a Repetition has just ended with the Match ret
Iteration == stack # <<>> /\ Top.self.kind = "Repeated" /\ IsMatch(ret)

\* the activation of a Repetition after one more successful iteration
Iterated(f, r, watch) ==
    [f EXCEPT !.loop_watch = watch, !.matched = Append(f.matched, r),
              !.src = r.remainder]

\* the input the latest iteration of the Repetition activation f was given
IterationInput(f) ==
    IF Len(f.matched) = 1 THEN f.source
    ELSE f.matched[Len(f.matched) - 1].remainder

\* what C9 says of one step of a Repetition
C9_Step ==
    Iteration =>
        IF ~ret.successful THEN Returns(Match(TRUE, Top.matched, Top.src))
        ELSE IF ret.remainder = Top.src
        THEN IF ~Top.loop_watch THEN LoopsOn(Iterated(Top, ret, TRUE))
             ELSE Returns(Raise("Exception"))
        ELSE IF ret.remainder = <<>>
        THEN Returns(Match(TRUE, Append(Top.matched, ret), <<>>))
        ELSE LoopsOn(Iterated(Top, ret, FALSE))

\* C9: in a Repetition, a first iteration that succeeds consuming nothing
\* is tolerated (its result is appended, the loop goes on); the fatal
\* error is raised only when a second consecutive iteration also succeeds
\* consuming nothing; an iteration that consumes resets the tolerance; a
\* loop ended by a failure of the sub-matcher or by the end of the input
\* returns a successful result.  The tolerance is used up (loop_watch)
\* exactly when the latest iteration consumed nothing.
C9_TolerateOnceThenAbort ==
    /\ [][C9_Step]_vars
    /\ [](\A k \in 1..Len(stack) :
            stack[k].self.kind = "Repeated" =>
                (stack[k].loop_watch <=>
                    /\ stack[k].matched # <<>>
                    /\ stack[k].src = IterationInput(stack[k])))

\* C9: a Repetition has consumed in its first iteration, has had its
\* second, empty, iteration tolerated, and is in its third
C9_Witness ==
    /\ Len(stack) > 1
    /\ stack[1].self.kind = "Repeated" /\ stack[1].loop_watch
    /\ Len(stack[1].matched) = 2
    /\ stack[1].matched[1].remainder # source

\* C9: the non-progress error has been raised
C9_WitnessRaised ==
    last.kind = "Repeated" /\ result = Raise("Exception")

\* C10: for a matcher without Reference nodes, match ends on every input,
\* with a Match or with the non-progress error: an iteration of a
\* Repetition after which the loop goes on has shortened the input left or
\* has used the tolerance up.
C10_Terminates ==
    /\ RefFree(last) ~> (result # None)
    /\ []((RefFree(last) /\ result # None) =>
            (IsMatch(result) \/ result = Raise("Exception")))
    /\ [][(RefFree(last) /\ Iteration /\ Len(stack') > Len(stack)) =>
            \/ Len(stack'[Len(stack)].src) < Len(Top.src)
            \/ ~Top.loop_watch /\ stack'[Len(stack)].loop_watch]_vars

\* C10: a Repetition under a Repetition, without References, has ended
\* after its inner loop iterated twice
C10_Witness ==
    /\ RefFree(last) /\ result # None
    /\ last.kind = "Repeated" /\ last.matcher.kind = "Optional"
    /\ last.matcher.matcher.kind = "Repeated"
    /\ IsMatch(result) /\ Len(result.tokens) = 1
    /\ Len(result.tokens[1].tokens[1].tokens) = 2

---------------------------------------------------------------------------
\* MatchDSL (dsl.py).  A MatchDSL object holds the registry, shared by all
\* the objects made from one root, and last, the matcher it stands for;
\* each method below is given self.last as self and gives the last of the
\* object it returns.

MATCH(literal) == LiteralMatcher(literal, TRUE)

\* the registry after self.STORE(name)
STORE(reg, name, self) ==
    [k \in DOMAIN reg \cup {name} |-> IF k = name THEN self ELSE reg[k]]

\* REF, and attribute access (__getattr__)
REF(reg, name) == reg[name]

\* THEN and + (THEN is a reserved word)
THEN_(self, seq) == SequenceMatcher(<<self, seq>>)

BETWEEN(lower, upper) == RangeMatcher(lower, upper, TRUE, TRUE)

OR(self, alt) == AnyMatcher(<<self, alt>>)

NOT(self) == NotMatcher(self)

\* REPEAT() and unary +
REPEAT(self) == RepeatedMatcher(self)

OPTIONAL(self) == OptionalMatcher(self)

---------------------------------------------------------------------------
\* Specification ExampleSpec: the grammar is written rule by rule, as in
\* example.py, and its rules are called by name.  handle is the rule
\* called, as a Reference to its name.

\* '0', '2', '4' and 'a'
ExampleAlphabet == {48, 50, 52, 97}

ExampleInputs == UNION {[1..n -> ExampleAlphabet] : n \in 0..MaxText}

ExampleInit ==
    /\ registry = [n \in {} |-> None]
    /\ last = None
    /\ handle = None
    /\ source = None
    /\ result = None
    /\ stack = <<>>
    /\ ret = None

\* matcher // name
Stored(name, matcher) ==
    /\ result = None
    /\ name \notin DOMAIN registry
    /\ registry' = STORE(registry, name, matcher)
    /\ last' = matcher
    /\ handle' = None
    /\ UNCHANGED <<source, result, stack, ret>>

\* (m.BETWEEN('1', '9') | m['0']) // 'digit'
StoreDigit ==
    /\ Stored("digit", OR(BETWEEN(49, 57), MATCH(<<48>>)))

\* (m.digit + +m.digit) // 'positive_integer'
StorePositiveInteger ==
    /\ "digit" \in DOMAIN registry
    /\ Stored("positive_integer",
              THEN_(REF(registry, "digit"), REPEAT(REF(registry, "digit"))))

\* (m['0'] | m.positive_integer) // 'integer'
StoreInteger ==
    /\ "positive_integer" \in DOMAIN registry
    /\ Stored("integer", OR(MATCH(<<48>>), REF(registry, "positive_integer")))

\* +m['a'] // 'any'
StoreAny ==
    /\ Stored("any", REPEAT(MATCH(<<97>>)))

\* (m.any + m['a']) // 'any_then_a'
StoreAnyThenA ==
    /\ "any" \in DOMAIN registry
    /\ Stored("any_then_a", THEN_(REF(registry, "any"), MATCH(<<97>>)))

\* result = m.<name>(source)
CallRule ==
    \E n \in DOMAIN registry, s \in ExampleInputs :
        /\ result = None
        /\ handle' = RefMatcher(n)
        /\ last' = REF(registry, n)
        /\ source' = s
        /\ result' = match(REF(registry, n), s, registry)
        /\ UNCHANGED <<registry, stack, ret>>

ExampleNext ==
    \/ StoreDigit \/ StorePositiveInteger \/ StoreInteger
    \/ StoreAny \/ StoreAnyThenA \/ CallRule \/ Discard

ExampleSpec == ExampleInit /\ [][ExampleNext]_vars

\* the rule name has been called
Called(name) == handle = RefMatcher(name) /\ result # None

\* s is made of 'a' only
AllA(s) == \A i \in 1..Len(s) : s[i] = 97

\* C3 as claimed: integer := Literal('0') | positive_integer matched
\* against "042" succeeds with consumed text "042" and remainder "".
C3_IntegerConsumesAll ==
    (Called("integer") /\ source = <<48, 52, 50>>) =>
        /\ Succeeded(result)
        /\ get_match(result) = <<48, 52, 50>>
        /\ result.remainder = <<>>

\* C3 as amended: integer matched against "042" succeeds with consumed
\* text "0" and remainder "42": its first alternative, Literal('0'),
\* succeeds.
C3_IntegerConsumesZero ==
    (Called("integer") /\ source = <<48, 52, 50>>) =>
        /\ Succeeded(result)
        /\ get_match(result) = <<48>>
        /\ result.remainder = <<52, 50>>
        /\ result.tokens = <<match(MATCH(<<48>>), source, registry)>>

\* C3: integer has been matched against "042"
C3_Witness == Called("integer") /\ source = <<48, 52, 50>>

\* C8: on an input of n 'a', Repetition(Literal("a")) consumes all n with
\* remainder "", and Sequence(Repetition(Literal("a")), Literal("a"))
\* fails consuming nothing.
C8_GreedyNoBacktracking ==
    /\ (Called("any") /\ AllA(source)) =>
            /\ Succeeded(result)
            /\ get_match(result) = source
            /\ result.remainder = <<>>
            /\ Len(result.tokens) = Len(source)
    /\ (Called("any_then_a") /\ AllA(source)) =>
            result = Match(FALSE, <<>>, source)

\* C8: the Sequence has failed on "aaa"
C8_Witness == Called("any_then_a") /\ source = <<97, 97, 97>> /\ Failed(result)

\* C8: the Repetition has consumed "aaa"
C8_WitnessAny == Called("any") /\ source = <<97, 97, 97>> /\ Succeeded(result)

---------------------------------------------------------------------------
\* Specification DSLSpec: matchers are written with the methods of
\* MatchDSL and called.  last is the matcher the MatchDSL object holds;
\* handle is the same expression with every REF(name) and attribute access
\* read as a Reference to name (RefMatcher), the reading of a reference
\* that is resolved when it is matched.

\* "a" and "A"
DSLLiterals == {<<97>>, <<65>>}

\* the arguments of THEN and OR, as MatchDSL holds them and as read:
\* m[literal] and m.<name>
DSLOperands ==
    {[last |-> MATCH(l), handle |-> MATCH(l)] : l \in DSLLiterals}
    \cup {[last |-> REF(registry, n), handle |-> RefMatcher(n)] : n \in DOMAIN registry}

\* the expression goes on as matcher, read as reading
Chained(matcher, reading) ==
    /\ result = None
    /\ Nodes(reading) <= MaxNodes
    /\ last' = matcher
    /\ handle' = reading
    /\ UNCHANGED <<registry, source, result, stack, ret>>

\* m[literal], m.MATCH(literal)
DSLMatch ==
    \E l \in DSLLiterals :
        /\ Chained(MATCH(l), MATCH(l))

\* m.REF(name), m.<name>: KeyError on a name not stored
DSLRef ==
    \E n \in Names :
        /\ n \in DOMAIN registry
        /\ Chained(REF(registry, n), RefMatcher(n))

DSLThen ==
    \E o \in DSLOperands :
        /\ last # None
        /\ Chained(THEN_(last, o.last), THEN_(handle, o.handle))

DSLOr ==
    \E o \in DSLOperands :
        /\ last # None
        /\ Chained(OR(last, o.last), OR(handle, o.handle))

DSLNot == last # None /\ Chained(NOT(last), NOT(handle))

\* RepeatedMatcher.__init__ raises ValueError on a RepeatedMatcher
DSLRepeat ==
    /\ last # None /\ last.kind # "Repeated"
    /\ Chained(REPEAT(last), REPEAT(handle))

DSLOptional == last # None /\ Chained(OPTIONAL(last), OPTIONAL(handle))

\* m[literal] // name, while the expression written so far is kept
DSLStore ==
    \E n \in Names, l \in DSLLiterals :
        /\ result = None
        /\ registry' = STORE(registry, n, MATCH(l))
        /\ UNCHANGED <<last, handle, source, result, stack, ret>>

\* result = expression(source)
DSLCall ==
    /\ last # None /\ result = None
    /\ \E s \in Inputs :
        /\ source' = s
        /\ result' = match(last, s, registry)
    /\ UNCHANGED <<registry, last, handle, stack, ret>>

DSLNext ==
    \/ DSLMatch \/ DSLRef \/ DSLThen \/ DSLOr \/ DSLNot \/ DSLRepeat
    \/ DSLOptional \/ DSLStore \/ DSLCall \/ Discard

DSLSpec == Init /\ [][DSLNext]_vars

\* C5: every reference to a name, also one made before the name was bound
\* again and one embedded in other matchers, delegates, when matched, to
\* the matcher the name is bound to at that moment: a call gives what the
\* expression gives with its references resolved in the registry as it is
\* at the call.
C5_ResolvedWhenMatched ==
    result # None => result = match(handle, source, registry)

\* C5: a reference made through the DSL has been matched, embedded in a
\* Sequence, after its name was bound again
C5_Witness ==
    /\ result # None
    /\ handle.kind = "Sequence" /\ handle.matchers[1] = RefMatcher("x")
    /\ last.matchers[1] # registry["x"]

====
